---- MODULE Spec2Model ----
(***************************************************************************)
(* remember-names: the sql.js database held in memory (db.js), its         *)
(* repositories (contacts.js, connections.js), the export/import           *)
(* interchange and the IndexedDB snapshot written by saveToIndexedDB.      *)
(*                                                                         *)
(* JavaScript runs each handler to its first await without interruption,   *)
(* so one action is the synchronous part of one repository call: its SQL   *)
(* statements, db.export() and the queuing of the IndexedDB write.  The    *)
(* write itself completes in a later step (FlushComplete / FlushFail).     *)
(***************************************************************************)
EXTENDS Integers, Sequences, FiniteSets, Bags, TLC

VARIABLES
    phase,      \* "uninit" | "ready" | "failed": init() has not run, has run to its end, has ended in its catch
    stage,      \* what init() has done: "none" | "ui" (db assigned, handlers of ui.js registered) | "network" (also the DataSets and the Network of network.js made)
    db,         \* the in-memory sql.js database: the three tables (EmptyDb while the module variable db is null)
    persisted,  \* the record stored under key "database" in IndexedDB
    inflight,   \* saveToIndexedDB calls whose put has not completed, oldest first
    issued,     \* the identifiers crypto.randomUUID() has returned so far
    nodes,      \* ids held by the vis.js nodesDataSet (set by refreshNetwork)
    calls,      \* number of repository calls made so far
    synced,     \* history: no mutation since the newest started flush, and that flush has not failed
    torn,       \* history: the database holds rows written by a call that ended in an error
    sw,         \* the service worker (sw.js): its state, the Cache Storage of the origin, the requests it waits for, the event just handled
    last        \* history: the step just taken (call, arguments, outcome)

vars == <<phase, stage, db, persisted, inflight, issued, nodes, calls, synced, torn, sw, last>>

(***************************************************************************)
(* Bounds of the model.                                                    *)
(***************************************************************************)
MaxCalls == 2        \* repository calls made, the rejected ones included
MaxGen == 6          \* places in the order of the texts that identifiers of this device take
MaxInflight == 2     \* flushes in flight at once
MaxClock == 2        \* seconds of the clock that datetime('now') reads
MaxFetching == 2     \* fetch events waiting for the network at once
MaxPending == 2      \* cache.put calls of the fetch handler not yet done
MaxMatching == 2     \* fallback lookups of the fetch handler not yet answered

(***************************************************************************)
(* Values.  An identifier is the number of its place in the order of the  *)
(* UUID texts (SQLite compares ids as TEXT); crypto.randomUUID() returns   *)
(* them in no order.  SQL NULL is NullId in an id column and Null in a     *)
(* TEXT column.                                                            *)
(***************************************************************************)
NullId == 0
Null == "<null>"
\* created_at is the number of the second: datetime('now') writes text of one
\* form, YYYY-MM-DD HH:MM:SS, which compares as the seconds do
SeedTime == 1                 \* the second in which the stored rows were made
Then == 0                     \* created_at and exportedAt of a document exported before
ForeignId == MaxGen + 1       \* an identifier made on another device
ForeignConnId == MaxGen + 2

\* positions_table: the table node_positions exists (snapshots of the schema
\* before it was added lack it).  readable: the bytes are an SQLite database;
\* on bytes that are none every statement throws "file is not a database"
EmptyDb == [contacts |-> <<>>, connections |-> <<>>, node_positions |-> {},
            positions_table |-> TRUE, readable |-> TRUE]
\* a stored record that is no database (new SQL.Database(bytes) reads no byte
\* of it, db.export() returns the same bytes)
DamagedDb == [EmptyDb EXCEPT !.readable = FALSE]
NoSnapshot == [present |-> FALSE, data |-> EmptyDb]

ContactInputs ==
    { [name |-> "ann", imageUrl |-> "", imageBlob |-> Null, notes |-> "tea"],
      [name |-> "bob", imageUrl |-> "u", imageBlob |-> "b", notes |-> Null],
      [name |-> "", imageUrl |-> Null, imageBlob |-> Null, notes |-> Null] }
Labels == {"friend", "boss"}
NewLabels == {"friend"}         \* the label typed into the connection form
\* the identifiers crypto.randomUUID() returns to the page, in either order:
\* between the stored contacts' ids and above them
NewIds == {3, 5}
Coords == {<<0, 0>>, <<1, 2>>}
\* layouts of the graph: where the physics has put the nodes
Layouts(ns) == {[n \in ns |-> c] : c \in Coords}

NoInput == [name |-> Null, imageUrl |-> Null, imageBlob |-> Null, notes |-> Null]
NoDoc == [version |-> 0, exportedAt |-> Then,
          hasContacts |-> FALSE, contacts |-> <<>>,
          hasConnections |-> FALSE, connections |-> <<>>]
NoCall == [op |-> "none", a |-> NullId, b |-> NullId, label |-> Null, now |-> Then,
           input |-> NoInput, doc |-> NoDoc, positions |-> {},
           gen1 |-> NullId, gen2 |-> NullId, ticket |-> 0, queued |-> 0,
           result |-> "none"]

(***************************************************************************)
(* SQL statements of the schema of createSchema, as sql.js executes them.  *)
(* A row of contacts or connections is appended (rowid order).             *)
(***************************************************************************)

\* PRAGMA foreign_keys: initDatabase never switches it on, and SQLite's default is off.
ForeignKeysOn == FALSE

\* SELECT id FROM contacts WHERE id = ?   (NULL = NULL is not true)
ContactsWithId(d, id) ==
    SelectSeq(d.contacts, LAMBDA r : id # NullId /\ r.id = id)

\* SELECT id FROM connections WHERE id = ?
ConnectionsWithId(d, id) ==
    SelectSeq(d.connections, LAMBDA r : id # NullId /\ r.id = id)

NonNullIds(rows) == {rows[i].id : i \in DOMAIN rows} \ {NullId}

\* INSERT INTO contacts: name NOT NULL; id TEXT PRIMARY KEY (unique, NULL allowed)
InsertContact(d, row) ==
    IF ~d.readable \/ row.name = Null \/ Len(ContactsWithId(d, row.id)) > 0
    THEN [ok |-> FALSE, db |-> d]
    ELSE [ok |-> TRUE, db |-> [d EXCEPT !.contacts = Append(@, row)]]

ReferencesHold(d, row) ==
    /\ Len(ContactsWithId(d, row.from_contact_id)) > 0
    /\ Len(ContactsWithId(d, row.to_contact_id)) > 0

\* INSERT INTO connections: from, to, label NOT NULL; id PRIMARY KEY;
\* UNIQUE(from_contact_id, to_contact_id); foreign keys only when enforced
InsertConnection(d, row) ==
    IF \/ ~d.readable
       \/ row.from_contact_id = NullId
       \/ row.to_contact_id = NullId
       \/ row.label = Null
       \/ Len(ConnectionsWithId(d, row.id)) > 0
       \/ \E i \in DOMAIN d.connections :
              /\ d.connections[i].from_contact_id = row.from_contact_id
              /\ d.connections[i].to_contact_id = row.to_contact_id
       \/ (ForeignKeysOn /\ ~ReferencesHold(d, row))
    THEN [ok |-> FALSE, db |-> d]
    ELSE [ok |-> TRUE, db |-> [d EXCEPT !.connections = Append(@, row)]]

\* DELETE FROM contacts WHERE id = ?  (ON DELETE CASCADE acts only when enforced)
DeleteContactRow(d, id) ==
    [contacts |-> SelectSeq(d.contacts, LAMBDA r : ~(id # NullId /\ r.id = id)),
     connections |->
        IF ForeignKeysOn
        THEN SelectSeq(d.connections,
                       LAMBDA r : r.from_contact_id # id /\ r.to_contact_id # id)
        ELSE d.connections,
     node_positions |->
        IF ForeignKeysOn
        THEN {p \in d.node_positions : p.contact_id # id}
        ELSE d.node_positions,
     positions_table |-> d.positions_table,
     readable |-> d.readable]

\* MIN() over a set of ids
Min(S) == CHOOSE x \in S : \A y \in S : x <= y

Max(S) == CHOOSE x \in S : \A y \in S : y <= x

\* the newest created_at of the rows of a database
Latest(d) ==
    Max({SeedTime}
        \cup {d.contacts[i].created_at : i \in DOMAIN d.contacts}
        \cup {d.connections[i].created_at : i \in DOMAIN d.connections})

Between(r, a, b) ==
    \/ (r.from_contact_id = a /\ r.to_contact_id = b)
    \/ (r.from_contact_id = b /\ r.to_contact_id = a)

(***************************************************************************)
(* Outcome of the synchronous part of a repository call: the database it   *)
(* leaves, how it ended, and whether it reached saveToIndexedDB.           *)
(*   "ok"        the statements ran and the flush was started              *)
(*   "self", "duplicate", "format"   the named rejections                  *)
(*   "error"     a statement threw (a constraint failed)                   *)
(***************************************************************************)
Flushed(d) == [db |-> d, result |-> "ok", flush |-> TRUE]
Thrown(d, why) == [db |-> d, result |-> why, flush |-> FALSE]

\* JavaScript  v || null
OrNull(v) == IF v = "" \/ v = Null THEN Null ELSE v

(***************************************************************************)
(* contacts.js                                                             *)
(***************************************************************************)
GetContactById(d, id) ==
    LET rows == ContactsWithId(d, id)
    IN  IF Len(rows) > 0 THEN <<rows[1]>> ELSE <<>>

\* now: what datetime('now'), the default of created_at, gives at the INSERT
ContactRow(id, input, now) ==
    [id |-> id, name |-> input.name, image_url |-> OrNull(input.imageUrl),
     image_blob |-> OrNull(input.imageBlob), notes |-> OrNull(input.notes),
     created_at |-> now]

CreateContact(d, id, input, now) ==
    LET r == InsertContact(d, ContactRow(id, input, now))
    IN  IF r.ok THEN Flushed(r.db) ELSE Thrown(d, "error")

UpdateContactRowsAll(d, id, input) ==
    [d EXCEPT !.contacts =
        [i \in DOMAIN d.contacts |->
            [d.contacts[i] EXCEPT !.name = input.name,
                                  !.image_url = OrNull(input.imageUrl),
                                  !.image_blob = OrNull(input.imageBlob),
                                  !.notes = OrNull(input.notes)]]]

\* UPDATE contacts SET name, image_url, image_blob, notes WHERE id = ?
UpdateContactRows(d, id, input) ==
    [d EXCEPT !.contacts =
        [i \in DOMAIN d.contacts |->
            IF id # NullId /\ d.contacts[i].id = id
            THEN [d.contacts[i] EXCEPT !.name = input.name,
                                       !.image_url = OrNull(input.imageUrl),
                                       !.image_blob = OrNull(input.imageBlob),
                                       !.notes = OrNull(input.notes)]
            ELSE d.contacts[i]]]

UpdateContact(d, id, input) ==
    IF ~d.readable \/ (input.name = Null /\ Len(ContactsWithId(d, id)) > 0)
    THEN Thrown(d, "error")
    ELSE Flushed(UpdateContactRows(d, id, input))

\* DELETE FROM connections WHERE from_contact_id = ? OR to_contact_id = ?
DeleteConnectionsOf(d, id) ==
    [d EXCEPT !.connections =
        SelectSeq(@, LAMBDA r : r.from_contact_id # id /\ r.to_contact_id # id)]

DeleteContact(d, id) ==
    IF ~d.readable THEN Thrown(d, "error")
    ELSE Flushed(DeleteContactRow(DeleteConnectionsOf(d, id), id))

(***************************************************************************)
(* connections.js                                                          *)
(***************************************************************************)
ConnectionExistsForward(d, fromId, toId) ==
    \E i \in DOMAIN d.connections :
        /\ d.connections[i].from_contact_id = fromId
        /\ d.connections[i].to_contact_id = toId

\* SELECT id FROM connections WHERE (from = ? AND to = ?) OR (from = ? AND to = ?)
ConnectionExists(d, fromId, toId) ==
    \E i \in DOMAIN d.connections : Between(d.connections[i], fromId, toId)

ConnectionRow(id, fromId, toId, label, now) ==
    [id |-> id, from_contact_id |-> fromId, to_contact_id |-> toId,
     label |-> label, created_at |-> now]

InsertForwardOnly(d, id1, id2, fromId, toId, label, now) ==
    LET r1 == InsertConnection(d, ConnectionRow(id1, fromId, toId, label, now))
    IN  IF ~r1.ok THEN Thrown(d, "error") ELSE Flushed(r1.db)

\* the two INSERT statements of createConnection, in order
InsertBothDirections(d, id1, id2, fromId, toId, label, now) ==
    LET r1 == InsertConnection(d, ConnectionRow(id1, fromId, toId, label, now))
        r2 == InsertConnection(r1.db, ConnectionRow(id2, toId, fromId, label, now))
    IN  IF ~r1.ok THEN Thrown(d, "error")
        ELSE IF ~r2.ok THEN Thrown(r1.db, "error")
        ELSE Flushed(r2.db)

CreateConnectionCheckLate(d, id1, id2, fromId, toId, label, now) ==
    LET r1 == InsertConnection(d, ConnectionRow(id1, fromId, toId, label, now))
    IN  IF fromId = toId THEN Thrown(r1.db, "self")
        ELSE IF ConnectionExists(d, fromId, toId) THEN Thrown(d, "duplicate")
        ELSE InsertBothDirections(d, id1, id2, fromId, toId, label, now)

CreateConnectionCheckStored(d, id1, id2, fromId, toId, label, now) ==
    IF fromId = toId THEN Thrown(d, "self")
    ELSE IF ConnectionExists(persisted.data, fromId, toId)
         THEN Thrown(d, "duplicate")
    ELSE InsertBothDirections(d, id1, id2, fromId, toId, label, now)

CreateConnection(d, id1, id2, fromId, toId, label, now) ==
    IF fromId = toId THEN Thrown(d, "self")
    ELSE IF ~d.readable THEN Thrown(d, "error")
    ELSE IF ConnectionExists(d, fromId, toId) THEN Thrown(d, "duplicate")
    ELSE InsertBothDirections(d, id1, id2, fromId, toId, label, now)

UpdateConnectionForward(d, fromId, toId, label) ==
    Flushed([d EXCEPT !.connections =
        [i \in DOMAIN d.connections |->
            IF /\ d.connections[i].from_contact_id = fromId
               /\ d.connections[i].to_contact_id = toId
            THEN [d.connections[i] EXCEPT !.label = label]
            ELSE d.connections[i]]])

\* UPDATE connections SET label = ? WHERE (from = ? AND to = ?) OR (from = ? AND to = ?)
UpdateConnection(d, fromId, toId, label) ==
    IF ~d.readable \/ (label = Null /\ ConnectionExists(d, fromId, toId))
    THEN Thrown(d, "error")
    ELSE Flushed([d EXCEPT !.connections =
            [i \in DOMAIN d.connections |->
                IF Between(d.connections[i], fromId, toId)
                THEN [d.connections[i] EXCEPT !.label = label]
                ELSE d.connections[i]]])

DeleteConnectionForward(d, fromId, toId) ==
    Flushed([d EXCEPT !.connections =
        SelectSeq(@, LAMBDA r : ~(r.from_contact_id = fromId /\ r.to_contact_id = toId))])

\* DELETE FROM connections WHERE (from = ? AND to = ?) OR (from = ? AND to = ?)
DeleteConnection(d, fromId, toId) ==
    IF ~d.readable THEN Thrown(d, "error")
    ELSE Flushed([d EXCEPT !.connections =
        SelectSeq(@, LAMBDA r : ~Between(r, fromId, toId))])

\* ORDER BY c.created_at DESC over rows in the order the engine reads them:
\* a row goes behind the rows that are as new or newer
RECURSIVE NewestFirst(_)
NewestFirst(rows) ==
    IF rows = <<>> THEN <<>>
    ELSE LET r == rows[Len(rows)]
             sorted == NewestFirst(SubSeq(rows, 1, Len(rows) - 1))
         IN  SelectSeq(sorted, LAMBDA x : x.created_at >= r.created_at)
             \o <<r>>
             \o SelectSeq(sorted, LAMBDA x : x.created_at < r.created_at)

\* connections c JOIN contacts cf JOIN contacts ct WHERE c.from = ? OR c.to = ?
\* ORDER BY c.created_at DESC: one entry per matching row whose two contacts
\* exist, naming the other end.  The engine reads the rows of
\* idx_connections_from first, then those of idx_connections_to.
GetConnectionsForContact(d, contactId) ==
    LET fromRows == SelectSeq(d.connections,
                        LAMBDA r : /\ r.from_contact_id = contactId
                                   /\ ReferencesHold(d, r))
        toRows == SelectSeq(d.connections,
                        LAMBDA r : /\ r.from_contact_id # contactId
                                   /\ r.to_contact_id = contactId
                                   /\ ReferencesHold(d, r))
        matching == NewestFirst(fromRows \o toRows)
        Other(r) == IF r.from_contact_id = contactId
                    THEN ContactsWithId(d, r.to_contact_id)[1]
                    ELSE ContactsWithId(d, r.from_contact_id)[1]
    IN  [i \in DOMAIN matching |->
            [id |-> matching[i].id,
             from_contact_id |-> matching[i].from_contact_id,
             to_contact_id |-> matching[i].to_contact_id,
             label |-> matching[i].label,
             created_at |-> matching[i].created_at,
             other_contact_id |-> Other(matching[i]).id,
             other_contact_name |-> Other(matching[i]).name,
             other_contact_image_url |-> Other(matching[i]).image_url,
             other_contact_image_blob |-> Other(matching[i]).image_blob]]

\* the GROUP BY key of getUniqueConnections: the two ends, lower id first
PairOf(r) ==
    IF r.from_contact_id < r.to_contact_id
    THEN <<r.from_contact_id, r.to_contact_id>>
    ELSE <<r.to_contact_id, r.from_contact_id>>

\* one result row per group; MIN(c.id) skips NULL, and SQLite takes the bare
\* column c.label from the row that holds the minimum or, when every id of
\* the group is NULL, from the group's last row in table order
GetUniqueConnections(d) ==
    LET Group(p) == {i \in DOMAIN d.connections : PairOf(d.connections[i]) = p}
        Ids(p) == {d.connections[i].id : i \in Group(p)} \ {NullId}
        MinRow(p) == IF Ids(p) = {}
                     THEN Max(Group(p))
                     ELSE CHOOSE i \in Group(p) : d.connections[i].id = Min(Ids(p))
    IN  {[id |-> IF Ids(p) = {} THEN NullId ELSE Min(Ids(p)),
          contact1_id |-> p[1],
          contact2_id |-> p[2],
          label |-> d.connections[MinRow(p)].label] :
            p \in {PairOf(d.connections[i]) : i \in DOMAIN d.connections}}

(***************************************************************************)
(* db.js: export / import                                                  *)
(***************************************************************************)
ExportDataUniquePairs(d, now) ==
    [version |-> 1, exportedAt |-> now,
     hasContacts |-> TRUE, contacts |-> d.contacts,
     hasConnections |-> TRUE,
     connections |-> SelectSeq(d.connections,
                        LAMBDA r : r.from_contact_id < r.to_contact_id)]

\* SELECT * FROM contacts, SELECT * FROM connections, version and exportedAt
ExportData(d, now) ==
    [version |-> 1, exportedAt |-> now,
     hasContacts |-> TRUE, contacts |-> d.contacts,
     hasConnections |-> TRUE, connections |-> d.connections]

RECURSIVE ImportContactsReplacing(_, _)
ImportContactsReplacing(d, rows) ==
    IF rows = <<>> THEN [ok |-> TRUE, db |-> d]
    ELSE LET row == Head(rows)
             kept == [d EXCEPT !.contacts =
                        SelectSeq(@, LAMBDA r : ~(row.id # NullId /\ r.id = row.id))]
             r == InsertContact(kept, row)
         IN  IF r.ok THEN ImportContactsReplacing(r.db, Tail(rows))
             ELSE [ok |-> FALSE, db |-> d]

\* the loop over data.contacts: an INSERT that throws ends the import
RECURSIVE ImportContacts(_, _)
ImportContacts(d, rows) ==
    IF rows = <<>> THEN [ok |-> TRUE, db |-> d]
    ELSE IF Len(ContactsWithId(d, Head(rows).id)) = 0
         THEN LET r == InsertContact(d, Head(rows))
              IN  IF r.ok THEN ImportContacts(r.db, Tail(rows))
                  ELSE [ok |-> FALSE, db |-> d]
         ELSE ImportContacts(d, Tail(rows))

RECURSIVE ImportConnectionsReplacing(_, _)
ImportConnectionsReplacing(d, rows) ==
    IF rows = <<>> THEN d
    ELSE LET row == Head(rows)
             kept == [d EXCEPT !.connections =
                        SelectSeq(@, LAMBDA r : ~(row.id # NullId /\ r.id = row.id))]
         IN  ImportConnectionsReplacing(InsertConnection(kept, row).db, Tail(rows))

\* the loop over data.connections: an INSERT that throws is caught and the row skipped
RECURSIVE ImportConnections(_, _)
ImportConnections(d, rows) ==
    IF rows = <<>> THEN d
    ELSE IF Len(ConnectionsWithId(d, Head(rows).id)) = 0
         THEN ImportConnections(InsertConnection(d, Head(rows)).db, Tail(rows))
         ELSE ImportConnections(d, Tail(rows))

ImportDataChecksContactsOnly(d, doc) ==
    IF ~doc.hasContacts THEN Thrown(d, "format")
    ELSE LET c == ImportContacts(d, doc.contacts)
         IN  IF ~c.ok THEN Thrown(c.db, "error")
             ELSE IF ~doc.hasConnections THEN Thrown(c.db, "error")
             ELSE Flushed(ImportConnections(c.db, doc.connections))

\* on bytes that are no database the first SELECT of a row throws; a document
\* of two empty lists runs no statement
ImportData(d, doc) ==
    IF ~doc.hasContacts \/ ~doc.hasConnections THEN Thrown(d, "format")
    ELSE IF ~d.readable
         THEN IF doc.contacts = <<>> /\ doc.connections = <<>>
              THEN Flushed(d) ELSE Thrown(d, "error")
    ELSE LET c == ImportContacts(d, doc.contacts)
         IN  IF c.ok THEN Flushed(ImportConnections(c.db, doc.connections))
             ELSE Thrown(c.db, "error")

(***************************************************************************)
(* db.js: node positions                                                   *)
(***************************************************************************)
EnsureNothing(d) == d

\* ensurePositionsTable: CREATE TABLE IF NOT EXISTS node_positions, in a
\* try/catch that swallows what the statement throws
EnsurePositionsTable(d) ==
    IF d.readable THEN [d EXCEPT !.positions_table = TRUE] ELSE d

SaveNodePositionsClearing(d, positions) ==
    LET e == EnsurePositionsTable(d)
    IN  Flushed([e EXCEPT !.node_positions =
            {[contact_id |-> q.id, x |-> q.x, y |-> q.y,
              fixed |-> IF q.fixed THEN 1 ELSE 0] : q \in positions}])

\* INSERT OR REPLACE INTO node_positions, one statement per entry; a
\* statement on a table that does not exist throws
SaveNodePositions(d, positions) ==
    LET e == EnsurePositionsTable(d)
    IN  IF (~e.readable \/ ~e.positions_table) /\ positions # {}
        THEN Thrown(e, "error")
        ELSE Flushed([e EXCEPT !.node_positions =
                {p \in @ : \A q \in positions : q.id # p.contact_id}
                \cup {[contact_id |-> q.id, x |-> q.x, y |-> q.y,
                       fixed |-> IF q.fixed THEN 1 ELSE 0] : q \in positions}])

\* SELECT contact_id as id, x, y, fixed FROM node_positions
GetNodePositions(d) ==
    {[id |-> p.contact_id, x |-> p.x, y |-> p.y, fixed |-> p.fixed] :
        p \in EnsurePositionsTable(d).node_positions}

ClearNodePositionsNoDelete(d) == Flushed(EnsurePositionsTable(d))

\* DELETE FROM node_positions
ClearNodePositions(d) ==
    LET e == EnsurePositionsTable(d)
    IN  IF ~e.readable \/ ~e.positions_table THEN Thrown(e, "error")
        ELSE Flushed([e EXCEPT !.node_positions = {}])

(***************************************************************************)
(* db.js: saveToIndexedDB and initDatabase                                 *)
(***************************************************************************)
SaveToIndexedDBTwice(q, d, c) ==
    LET e == [snap |-> d, op |-> c.op, ticket |-> c.ticket, queued |-> Len(q),
              torn |-> torn]
    IN  Append(Append(q, e), e)

\* db.export() is taken when saveToIndexedDB is called; the put follows later
SaveToIndexedDB(q, d, c) ==
    Append(q, [snap |-> d, op |-> c.op, ticket |-> c.ticket, queued |-> Len(q),
               torn |-> torn])

NewestFlush(q) == Len(q)

\* IndexedDB runs the readwrite transactions on the one store in the order
\* they were made: of the flushes in flight the oldest writes first
NextFlush(q) == 1

FlushWriteNothing(p, snap) == p

FlushWriteDeletes(p, snap) == [present |-> FALSE, data |-> EmptyDb]

\* store.put(buffer, "database")
FlushWrite(p, snap) == [present |-> TRUE, data |-> snap]

\* initDatabase: new SQL.Database(savedData), or a new database and
\* createSchema(); the constructor reads no byte of savedData
LoadOrCreate(p) == IF p.present THEN p.data ELSE EmptyDb

(***************************************************************************)
(* network.js                                                              *)
(***************************************************************************)
\* nodesDataSet.add of an item whose id is null: vis-data gives the item an
\* id of its own making, new each time; such ids are the negative numbers,
\* and the k made here are none of the ids in used
RECURSIVE GeneratedIds(_, _)
GeneratedIds(k, used) ==
    IF k = 0 THEN {}
    ELSE LET n == Min({m \in 1..(Cardinality(used) + 1) : (0 - m) \notin used})
         IN  {0 - n} \cup GeneratedIds(k - 1, used \cup {0 - n})

\* refreshNetwork fills nodesDataSet from getAllContacts(): one node per
\* contact row, under the contact's id or, for a row whose id is NULL, under
\* a generated one; on bytes that are no database getAllContacts() throws
RefreshNetwork(d, old, used) ==
    IF ~d.readable THEN old
    ELSE NonNullIds(d.contacts)
         \cup GeneratedIds(Len(SelectSeq(d.contacts, LAMBDA r : r.id = NullId)), used)

\* refreshNetwork reads getNodePositions(), which runs ensurePositionsTable
RefreshedDb(d) == EnsurePositionsTable(d)

\* the callers in ui.js and network.js that call refreshNetwork() after the await
RefreshingOps == {"createContact", "updateContact", "deleteContact",
                  "createConnection", "importData", "clearNodePositions"}

\* posArray of saveCurrentPositions for a layout f of the nodes
PosArray(f) ==
    {[id |-> n, x |-> f[n][1], y |-> f[n][2], fixed |-> FALSE] : n \in DOMAIN f}

(***************************************************************************)
(* The inputs of the model.                                                *)
(***************************************************************************)
Lowest(S) == IF S = {} THEN {} ELSE {Min(S)}

\* ids a caller may pass: a contact of the database, or one it does not hold
ArgIds(d) == NonNullIds(d.contacts) \cup {ForeignId}

DocContact(i, n) ==
    [id |-> i, name |-> n, image_url |-> Null, image_blob |-> Null,
     notes |-> Null, created_at |-> Then]

DocConnection(i, f, t) ==
    [id |-> i, from_contact_id |-> f, to_contact_id |-> t, label |-> "kin",
     created_at |-> Then]

Doc(cs, ns) ==
    [version |-> 1, exportedAt |-> Then,
     hasContacts |-> TRUE, contacts |-> cs,
     hasConnections |-> TRUE, connections |-> ns]

\* contact rows: without id, with an id of another device, with the id of a
\* contact of the database; with a name and without
DocContactRows(d) ==
    {DocContact(i, n) :
        i \in {NullId, ForeignId} \cup Lowest(NonNullIds(d.contacts)),
        n \in {"zed", Null}}

\* connection rows: with a new id between any two of the ids above, and with
\* the id of a connection of the database
DocConnectionRows(d) ==
    {DocConnection(ForeignConnId, f, t) :
        f \in {ForeignId} \cup Lowest(NonNullIds(d.contacts)),
        t \in {ForeignId} \cup Lowest(NonNullIds(d.contacts))}
    \cup {DocConnection(i, ForeignId, ForeignId) :
        i \in Lowest(NonNullIds(d.connections))}

\* documents that hold both lists: empty, of one row, and of two rows
ValidDocs(d) ==
    {Doc(<<>>, <<>>)}
    \cup {Doc(<<r>>, <<>>) : r \in DocContactRows(d)}
    \cup {Doc(<<>>, <<r>>) : r \in DocConnectionRows(d)}
    \cup {Doc(<<DocContact(ForeignId, "zed"), DocContact(NullId, Null)>>, <<>>)}
    \cup {Doc(<<DocContact(ForeignId, "zed")>>, <<r>>) :
             r \in {x \in DocConnectionRows(d) :
                      x.id = ForeignConnId /\ x.from_contact_id = ForeignId
                      /\ x.to_contact_id # ForeignId}}

\* a document whose two rows connect two contacts of the database, one row
\* in each direction, under different labels
UnevenDocs(d) ==
    LET ids == NonNullIds(d.contacts)
    IN  IF Cardinality(ids) < 2 THEN {}
        ELSE {Doc(<<>>, <<DocConnection(ForeignConnId, Max(ids), Min(ids)),
                          [DocConnection(ForeignConnId + 1, Min(ids), Max(ids))
                              EXCEPT !.label = "pal"]>>)}

\* documents that lack a list
LackingDocs(d) ==
    { [Doc(<<>>, <<DocConnection(ForeignConnId, ForeignId, ForeignId)>>)
          EXCEPT !.hasContacts = FALSE],
      [Doc(<<DocContact(ForeignId, "zed")>>, <<>>) EXCEPT !.hasConnections = FALSE],
      [Doc(<<>>, <<>>) EXCEPT !.hasContacts = FALSE, !.hasConnections = FALSE] }

ImportDocs(d) ==
    ValidDocs(d) \cup UnevenDocs(d) \cup LackingDocs(d) \cup {ExportData(d, Latest(d))}

\* crypto.randomUUID() returns an identifier it has not returned before; by
\* the order of the texts it falls anywhere among the others
FreshIds == NewIds \ issued

\* every database the page or the store holds
Databases ==
    {db, persisted.data} \cup {inflight[i].snap : i \in DOMAIN inflight}

\* datetime('now') at a call: the second of the newest row, or the next one
\* (the first row of all is made in the first second)
Times ==
    LET clock == Max({Latest(d) : d \in Databases})
        rows == \E d \in Databases : d.contacts # <<>> \/ d.connections # <<>>
    IN  {clock} \cup {t \in {clock + 1} : rows /\ t <= MaxClock}

\* the ids that nodes or position rows carry
UsedNodeIds ==
    nodes \cup UNION {{p.contact_id : p \in d.node_positions} : d \in Databases}

\* db is assigned: initDatabase has resolved (ui.js has its handlers registered)
Installed == stage # "none"

(***************************************************************************)
(* sw.js: the service worker and the Cache Storage of the origin           *)
(***************************************************************************)
CACHE_NAME == "remember-names-v3"

\* caches an earlier version of the worker, or another script, may have left
OldCacheNames == {"remember-names-v2", "app-data"}

LocationOrigin == "https://names.example"

Url(origin, hostname, path) == [origin |-> origin, hostname |-> hostname, path |-> path]

IndexHtml == Url(LocationOrigin, "names.example", "/index.html")
AppJs == Url(LocationOrigin, "names.example", "/js/app.js")
SqlWasmJs == Url("https://cdnjs.cloudflare.com", "cdnjs.cloudflare.com",
                "/ajax/libs/sql.js/1.10.3/sql-wasm.js")

\* three of the assets: the page, a script of the origin, a library of the CDN
ASSETS_TO_CACHE == {IndexHtml, AppJs, SqlWasmJs}

\* what the page may ask for: the assets, a page and a file of the origin
\* that are no assets, a library of the CDN, a file of another site
Urls ==
    ASSETS_TO_CACHE
    \cup {Url(LocationOrigin, "names.example", "/about.html"),
          Url(LocationOrigin, "names.example", "/photo.png"),
          Url("https://cdnjs.cloudflare.com", "cdnjs.cloudflare.com", "/other.js"),
          Url("https://other.example", "other.example", "/pixel.png")}

Methods == {"GET", "POST"}

\* event.request.destination
Destination(url) ==
    IF url.path \in {"/index.html", "/about.html"} THEN "document" ELSE "script"

\* the status of the response fetch(event.request) resolves to (0: opaque)
ResponseStatuses == {200, 404, 0}

NoEvent == [event |-> "none", method |-> Null, url |-> IndexHtml,
            answered |-> FALSE, source |-> "none", status |-> 0]

\* fetching: the requests whose handler waits for fetch(event.request);
\* pending: the responses the handler has handed to cache.put, not yet stored;
\* matching: the document requests whose catch waits for caches.match("/index.html")
NoWorker == [worker |-> "none", caches |-> {}, entries |-> {},
             fetching |-> EmptyBag, pending |-> EmptyBag, matching |-> EmptyBag,
             last |-> NoEvent]

Entry(cache, url, status, via) ==
    [cache |-> cache, url |-> url, status |-> status, via |-> via]

CacheableAnyOrigin(url, status) == status = 200

\* the two tests of the fetch handler before cache.put
Cacheable(url, status) ==
    /\ status = 200
    /\ \/ url.origin = LocationOrigin
       \/ url.hostname = "cdnjs.cloudflare.com"

\* cache.put(request, response): the entry of that request is replaced
CachePut(entries, url, status, via) ==
    {e \in entries : ~(e.cache = CACHE_NAME /\ e.url = url)}
    \cup {Entry(CACHE_NAME, url, status, via)}

\* caches.match(request): an entry of any cache of the origin
CachesMatch(entries, url) == {e \in entries : e.url = url}

\* cache.addAll(urls): each response is stored under its request, in place of
\* the entry that request had; the other entries of the cache stay
AddAll(entries, urls) ==
    {e \in entries : ~(e.cache = CACHE_NAME /\ e.url \in urls)}
    \cup {Entry(CACHE_NAME, u, 200, "install") : u \in urls}

\* a bag with one copy of x less
Less(bag, x) == bag (-) SetToBag({x})

(***************************************************************************)
(* Actions                                                                 *)
(***************************************************************************)
\* The page opens on the store an earlier session left: none on a first
\* visit, or the snapshot of a session in which two contacts were created.
SeedDb ==
    LET one == [name |-> "ann", imageUrl |-> "", imageBlob |-> Null, notes |-> "tea"]
        two == [name |-> "bob", imageUrl |-> "u", imageBlob |-> "b", notes |-> Null]
    IN  CreateContact(CreateContact(EmptyDb, 4, one, SeedTime).db, 2, two, SeedTime).db

\* or the stored record is no database
Init ==
    /\ phase = "uninit"
    /\ stage = "none"
    /\ db = EmptyDb
    /\ \/ persisted = NoSnapshot
       \/ persisted = FlushWrite(NoSnapshot, SeedDb)
       \/ persisted = FlushWrite(NoSnapshot, DamagedDb)
    /\ issued = {}
    /\ inflight = <<>>
    /\ calls = 0
    /\ nodes = {}
    /\ synced = TRUE
    /\ torn = FALSE
    /\ sw = NoWorker
    /\ last = NoCall

\* init(): initDatabase() succeeds, then initNetwork() refreshes the graph
InitDatabase ==
    /\ phase = "uninit"
    /\ LoadOrCreate(persisted).readable
    /\ phase' = "ready"
    /\ stage' = "network"
    /\ db' = RefreshedDb(LoadOrCreate(persisted))
    /\ nodes' = RefreshNetwork(LoadOrCreate(persisted), nodes, UsedNodeIds)
    /\ synced' = TRUE
    /\ torn' = FALSE
    /\ last' = [NoCall EXCEPT !.op = "initDatabase", !.result = "ok"]
    /\ UNCHANGED <<persisted, inflight, issued, calls, sw>>

\* init() ends in its catch, which shows the error with the Retry button:
\* "readError": loadFromIndexedDB rejects (request.onerror, getRequest.onerror),
\*   initDatabase throws and db stays null;
\* "unreadable": the stored record is no database; new SQL.Database(savedData)
\*   returns, db is assigned, initUI() registers the handlers, initNetwork()
\*   makes its DataSets and its Network, and the first query of its
\*   refreshNetwork() throws;
\* "networkError": initDatabase resolves on the stored record or on a new
\*   database, initUI() registers the handlers, and initNetwork() throws at
\*   new vis.DataSet (the script of vis-network is not loaded): nodesDataSet
\*   stays null and refreshNetwork() is not reached
InitDatabaseFail ==
    /\ phase = "uninit"
    /\ phase' = "failed"
    /\ \E why \in {"readError", "unreadable", "networkError"} :
        /\ why = "unreadable" => (persisted.present /\ ~persisted.data.readable)
        /\ db' = IF why = "readError" THEN db ELSE LoadOrCreate(persisted)
        /\ stage' = IF why = "readError" THEN "none"
                     ELSE IF why = "unreadable" THEN "network" ELSE "ui"
        /\ last' = [NoCall EXCEPT !.op = "initDatabase", !.result = why]
    /\ UNCHANGED <<persisted, inflight, issued, nodes, calls, synced, torn, sw>>

\* the page is reloaded: the module state is gone, writes not yet done are lost
Reload ==
    /\ phase \in {"ready", "failed"}
    /\ phase' = "uninit"
    /\ stage' = "none"
    /\ db' = EmptyDb
    /\ inflight' = <<>>
    /\ nodes' = {}
    /\ synced' = TRUE
    /\ torn' = FALSE
    /\ last' = [NoCall EXCEPT !.op = "reload", !.result = "ok"]
    /\ UNCHANGED <<persisted, issued, calls, sw>>

CallBeforeReady(c, out) ==
    /\ out.flush => Len(inflight) < MaxInflight
    /\ calls < MaxCalls
    /\ calls' = calls + 1
    /\ db' = out.db
    /\ last' = [c EXCEPT !.ticket = calls',
                         !.queued = IF out.flush THEN Len(inflight) ELSE 0,
                         !.result = IF out.flush THEN "started" ELSE out.result]
    /\ inflight' = IF out.flush
                   THEN SaveToIndexedDB(inflight, out.db, [c EXCEPT !.ticket = calls'])
                   ELSE inflight
    /\ synced' = IF out.flush THEN TRUE
                 ELSE IF out.db = db THEN synced ELSE FALSE
    /\ torn' = (torn \/ (~out.flush /\ out.db # db))
    /\ UNCHANGED <<phase, stage, persisted, nodes, sw>>

\* the synchronous part of a repository call c with outcome out
Call(c, out) ==
    /\ Installed
    /\ out.flush => Len(inflight) < MaxInflight
    /\ calls < MaxCalls
    /\ calls' = calls + 1
    /\ db' = out.db
    /\ last' = [c EXCEPT !.ticket = calls',
                         !.queued = IF out.flush THEN Len(inflight) ELSE 0,
                         !.result = IF out.flush THEN "started" ELSE out.result]
    /\ inflight' = IF out.flush
                   THEN SaveToIndexedDB(inflight, out.db, [c EXCEPT !.ticket = calls'])
                   ELSE inflight
    /\ synced' = IF out.flush THEN TRUE
                 ELSE IF out.db = db THEN synced ELSE FALSE
    /\ torn' = (torn \/ (~out.flush /\ out.db # db))
    /\ UNCHANGED <<phase, stage, persisted, nodes, sw>>

DoCreateContact ==
    \E input \in ContactInputs, now \in Times, id \in FreshIds :
        /\ Call([NoCall EXCEPT !.op = "createContact", !.input = input,
                               !.gen1 = id, !.now = now],
                CreateContact(db, id, input, now))
        /\ issued' = issued \cup {id}

DoUpdateContact ==
    \E id \in ArgIds(db), input \in ContactInputs :
        /\ Call([NoCall EXCEPT !.op = "updateContact", !.a = id, !.input = input],
                UpdateContact(db, id, input))
        /\ UNCHANGED issued

\* confirmDeleteContact: returns when getContactById finds no contact
DoDeleteContact ==
    \E id \in ArgIds(db) :
        /\ db.readable
        /\ GetContactById(db, id) # <<>>
        /\ Call([NoCall EXCEPT !.op = "deleteContact", !.a = id],
                DeleteContact(db, id))
        /\ UNCHANGED issued

\* generateId() is reached only past the two checks
DoCreateConnection ==
    \E a \in ArgIds(db), b \in ArgIds(db), label \in NewLabels :
        LET made == db.readable /\ a # b /\ ~ConnectionExists(db, a, b)
        IN  \E now \in IF made THEN Times ELSE {Then},
               id1 \in IF made THEN FreshIds ELSE {NullId},
               id2 \in IF made THEN FreshIds ELSE {NullId} :
                /\ made => id1 # id2
                /\ Call([NoCall EXCEPT !.op = "createConnection", !.a = a, !.b = b,
                                       !.label = label, !.now = now,
                                       !.gen1 = id1, !.gen2 = id2],
                        CreateConnection(db, id1, id2, a, b, label, now))
                /\ issued' = IF made THEN issued \cup {id1, id2} ELSE issued

DoUpdateConnection ==
    \E a \in ArgIds(db), b \in ArgIds(db), label \in Labels :
        /\ Call([NoCall EXCEPT !.op = "updateConnection", !.a = a, !.b = b,
                               !.label = label],
                UpdateConnection(db, a, b, label))
        /\ UNCHANGED issued

DoDeleteConnection ==
    \E a \in ArgIds(db), b \in ArgIds(db) :
        /\ Call([NoCall EXCEPT !.op = "deleteConnection", !.a = a, !.b = b],
                DeleteConnection(db, a, b))
        /\ UNCHANGED issued

DoImportData ==
    \E doc \in ImportDocs(db) :
        /\ Call([NoCall EXCEPT !.op = "importData", !.doc = doc],
                ImportData(db, doc))
        /\ UNCHANGED issued

\* saveCurrentPositions (timer, stabilisation, drag end) and
\* saveCurrentPositionsSync (beforeunload): nothing is saved for an empty graph
DoSavePositions ==
    /\ nodes # {}
    /\ \E f \in Layouts(nodes) :
        Call([NoCall EXCEPT !.op = "saveNodePositions", !.positions = PosArray(f)],
             SaveNodePositions(db, PosArray(f)))
    /\ UNCHANGED issued

\* resetPositions, from the button that init() wires after initNetwork()
DoClearPositions ==
    /\ phase = "ready"
    /\ Call([NoCall EXCEPT !.op = "clearNodePositions"], ClearNodePositions(db))
    /\ UNCHANGED issued

\* transaction.oncomplete of the oldest flush: the put is durable, the call
\* resolves and its caller goes on (refreshNetwork where the caller has one:
\* its queries run, ensurePositionsTable among them, and nodesDataSet.clear()
\* throws when initNetwork has made no DataSet)
FlushComplete ==
    /\ Installed
    /\ inflight # <<>>
    /\ LET i == NextFlush(inflight)
           f == inflight[i]
       IN  /\ persisted' = FlushWrite(persisted, f.snap)
           /\ inflight' = [k \in 1..(Len(inflight) - 1) |->
                              IF k < i THEN inflight[k] ELSE inflight[k + 1]]
           /\ last' = [NoCall EXCEPT !.op = f.op, !.ticket = f.ticket,
                                     !.queued = f.queued, !.result = "resolved"]
           /\ nodes' = IF f.op \in RefreshingOps /\ stage = "network"
                       THEN RefreshNetwork(db, nodes, UsedNodeIds) ELSE nodes
           /\ db' = IF f.op \in RefreshingOps THEN RefreshedDb(db) ELSE db
    /\ UNCHANGED <<phase, stage, issued, calls, synced, torn, sw>>

\* handleExport: exportData() is read and handed to the download
DoExportData ==
    /\ Installed
    /\ \E now \in Times :
        last' = IF db.readable
                THEN [NoCall EXCEPT !.op = "exportData", !.doc = ExportData(db, now),
                                    !.now = now, !.result = "exported"]
                ELSE [NoCall EXCEPT !.op = "exportData", !.result = "error"]
    /\ UNCHANGED <<phase, stage, db, persisted, inflight, issued, nodes, calls, synced, torn, sw>>

FlushFailRollsBack ==
    /\ Installed
    /\ \E i \in DOMAIN inflight :
       LET f == inflight[i]
       IN  /\ inflight' = [k \in 1..(Len(inflight) - 1) |->
                              IF k < i THEN inflight[k] ELSE inflight[k + 1]]
           /\ last' = [NoCall EXCEPT !.op = f.op, !.ticket = f.ticket,
                                     !.queued = f.queued, !.result = "rejected"]
           /\ synced' = synced
           /\ db' = RefreshedDb(LoadOrCreate(persisted))
    /\ UNCHANGED <<phase, stage, persisted, issued, nodes, calls, torn, sw>>

\* request.onerror / transaction.onerror of a flush: nothing is written and
\* the call rejects; each flush has its own open request, so any of those in
\* flight may fail while the older ones are still waiting
FlushFail ==
    /\ Installed
    /\ \E i \in DOMAIN inflight :
       LET f == inflight[i]
       IN  /\ inflight' = [k \in 1..(Len(inflight) - 1) |->
                              IF k < i THEN inflight[k] ELSE inflight[k + 1]]
           /\ last' = [NoCall EXCEPT !.op = f.op, !.ticket = f.ticket,
                                     !.queued = f.queued, !.result = "rejected"]
           /\ synced' = IF i = Len(inflight) THEN FALSE ELSE synced
    /\ UNCHANGED <<phase, stage, db, persisted, issued, nodes, calls, torn, sw>>

Next ==
    \/ InitDatabase
    \/ InitDatabaseFail
    \/ Reload
    \/ DoCreateContact
    \/ DoUpdateContact
    \/ DoDeleteContact
    \/ DoCreateConnection
    \/ DoUpdateConnection
    \/ DoDeleteConnection
    \/ DoImportData
    \/ DoSavePositions
    \/ DoClearPositions
    \/ DoExportData
    \/ FlushComplete
    \/ FlushFail

Spec == Init /\ [][Next]_vars

\* The page opens on the store of a session in which the two contacts were
\* also connected and the graph's layout was saved.
SeedLinkedDb ==
    LET linked == CreateConnection(SeedDb, 6, 1, 4, 2, "friend", SeedTime).db
        layout == [n \in RefreshNetwork(linked, {}, {}) |-> <<0, 0>>]
    IN  SaveNodePositions(linked, PosArray(layout)).db

InitLinked ==
    /\ phase = "uninit"
    /\ stage = "none"
    /\ db = EmptyDb
    /\ persisted = FlushWrite(NoSnapshot, SeedLinkedDb)
    /\ issued = {}
    /\ inflight = <<>>
    /\ calls = 0
    /\ nodes = {}
    /\ synced = TRUE
    /\ torn = FALSE
    /\ sw = NoWorker
    /\ last = NoCall

SpecLinked == InitLinked /\ [][Next]_vars

\* The page opens on a snapshot written before node_positions was part of
\* the schema: the two contacts and their connection, and no such table.
SeedLegacyDb ==
    [CreateConnection(SeedDb, 6, 1, 4, 2, "friend", SeedTime).db
        EXCEPT !.positions_table = FALSE]

InitLegacy ==
    /\ phase = "uninit"
    /\ stage = "none"
    /\ db = EmptyDb
    /\ persisted = FlushWrite(NoSnapshot, SeedLegacyDb)
    /\ issued = {}
    /\ inflight = <<>>
    /\ calls = 0
    /\ nodes = {}
    /\ synced = TRUE
    /\ torn = FALSE
    /\ sw = NoWorker
    /\ last = NoCall

SpecLegacy == InitLegacy /\ [][Next]_vars

(***************************************************************************)
(* The service worker's events.  The page's database is not involved.      *)
(***************************************************************************)
appvars == <<phase, stage, db, persisted, inflight, issued, nodes, calls, synced, torn, last>>

\* the browser's storage when the worker is registered: caches of earlier
\* versions or none, and the cache of an earlier registration of this script
\* (the assets and a file its fetch handler stored) or none
InitSW ==
    /\ phase = "uninit"
    /\ stage = "none"
    /\ db = EmptyDb
    /\ persisted = NoSnapshot
    /\ issued = {}
    /\ inflight = <<>>
    /\ calls = 0
    /\ nodes = {}
    /\ synced = TRUE
    /\ torn = FALSE
    /\ last = NoCall
    /\ \E old \in SUBSET OldCacheNames, own \in SUBSET {CACHE_NAME} :
        sw = [NoWorker EXCEPT
                !.caches = old \cup own,
                !.entries = {Entry(c, IndexHtml, 200, "old") : c \in old}
                            \cup {Entry(c, Url(LocationOrigin, "names.example", "/photo.png"),
                                        200, "old") : c \in old \cap {"app-data"}}
                            \cup {Entry(c, u, 200, "install") : c \in own, u \in ASSETS_TO_CACHE}
                            \cup {Entry(c, Url(LocationOrigin, "names.example", "/photo.png"),
                                        200, "fetch") : c \in own}]

\* install: caches.open(CACHE_NAME), cache.addAll(ASSETS_TO_CACHE), skipWaiting();
\* addAll stores all assets or, when one cannot be fetched, none (install fails)
SwInstall ==
    /\ sw.worker = "none"
    /\ \E ok \in BOOLEAN :
        sw' = [sw EXCEPT
                !.worker = IF ok THEN "installed" ELSE "none",
                !.caches = @ \cup {CACHE_NAME},
                !.entries = IF ok THEN AddAll(@, ASSETS_TO_CACHE) ELSE @,
                !.last = [NoEvent EXCEPT !.event = "install", !.answered = ok]]
    /\ UNCHANGED appvars

\* activate: every cache whose name is not CACHE_NAME is deleted, clients.claim()
SwActivate ==
    /\ sw.worker = "installed"
    /\ sw' = [sw EXCEPT
                !.worker = "active",
                !.caches = {n \in @ : ~(n # CACHE_NAME)},
                !.entries = {e \in @ : ~(e.cache # CACHE_NAME)},
                !.last = [NoEvent EXCEPT !.event = "activate"]]
    /\ UNCHANGED appvars

\* fetch: the handler up to the answer of caches.match(event.request); a
\* request that is no GET is left alone, a cached one is answered, and for
\* any other fetch(event.request) is called and the handler waits
SwFetch ==
    /\ sw.worker = "active"
    /\ \E method \in Methods, url \in Urls :
        LET ev == [NoEvent EXCEPT !.event = "fetch", !.method = method, !.url = url]
        IN  IF method # "GET"
            THEN sw' = [sw EXCEPT !.last = ev]
            ELSE IF CachesMatch(sw.entries, url) # {}
            THEN sw' = [sw EXCEPT !.last = [ev EXCEPT !.answered = TRUE,
                                                     !.source = "cache",
                                                     !.status = 200]]
            ELSE /\ BagCardinality(sw.fetching) < MaxFetching
                 /\ sw' = [sw EXCEPT !.fetching = @ (+) SetToBag({url}),
                                     !.last = ev]
    /\ UNCHANGED appvars

\* fetch(event.request) of a waiting handler resolves: the response is the
\* answer, whatever the cache holds by now, and a copy of a response that
\* passes the two tests is handed to cache.put
SwResponse ==
    /\ \E url \in BagToSet(sw.fetching), status \in ResponseStatuses :
        /\ Cacheable(url, status) => BagCardinality(sw.pending) < MaxPending
        /\ sw' = [sw EXCEPT
                    !.fetching = Less(@, url),
                    !.pending = IF Cacheable(url, status)
                                THEN @ (+) SetToBag({[url |-> url, status |-> status]})
                                ELSE @,
                    !.last = [NoEvent EXCEPT !.event = "response", !.method = "GET",
                                             !.url = url, !.answered = TRUE,
                                             !.source = "network", !.status = status]]
    /\ UNCHANGED appvars

\* fetch(event.request) of a waiting handler rejects: the catch calls
\* caches.match("/index.html") for a document request, which waits for the
\* lookup, and answers any other request with nothing
SwFailure ==
    /\ \E url \in BagToSet(sw.fetching) :
        LET ev == [NoEvent EXCEPT !.event = "failure", !.method = "GET", !.url = url]
        IN  IF Destination(url) = "document"
            THEN /\ BagCardinality(sw.matching) < MaxMatching
                 /\ sw' = [sw EXCEPT !.fetching = Less(@, url),
                                     !.matching = @ (+) SetToBag({url}),
                                     !.last = ev]
            ELSE sw' = [sw EXCEPT !.fetching = Less(@, url),
                                  !.last = [ev EXCEPT !.answered = TRUE,
                                                      !.source = "nothing"]]
    /\ UNCHANGED appvars

\* caches.match("/index.html") of a catch answers: the event is answered
\* with the entry the caches hold by now, or with nothing
SwFallback ==
    /\ \E url \in BagToSet(sw.matching) :
        LET ev == [NoEvent EXCEPT !.event = "fallback", !.method = "GET", !.url = url,
                                  !.answered = TRUE]
        IN  sw' = [sw EXCEPT
                    !.matching = Less(@, url),
                    !.last = IF CachesMatch(sw.entries, IndexHtml) # {}
                             THEN [ev EXCEPT !.source = "fallback", !.status = 200]
                             ELSE [ev EXCEPT !.source = "nothing"]]
    /\ UNCHANGED appvars

\* caches.open(CACHE_NAME).then(cache => cache.put(...)) of an earlier response
SwPut ==
    /\ \E p \in BagToSet(sw.pending) :
        sw' = [sw EXCEPT
                !.caches = @ \cup {CACHE_NAME},
                !.entries = CachePut(@, p.url, p.status, "fetch"),
                !.pending = Less(@, p),
                !.last = [NoEvent EXCEPT !.event = "put", !.url = p.url,
                                         !.status = p.status]]
    /\ UNCHANGED appvars

NextSW ==
    \/ SwInstall
    \/ SwActivate
    \/ SwFetch
    \/ SwResponse
    \/ SwFailure
    \/ SwFallback
    \/ SwPut

SpecSW == InitSW /\ [][NextSW]_vars

(***************************************************************************)
(* Properties                                                              *)
(***************************************************************************)
\* the step just taken is the synchronous part of a repository call
IsCall(l) == l.result \in {"started", "self", "duplicate", "format", "error"}

RowsBetween(d, a, b) == SelectSeq(d.connections, LAMBDA r : Between(r, a, b))

\* C1: after createConnection(A,B,L) succeeds for distinct A and B,
\* connectionExists(A,B) and connectionExists(B,A) are true and the pair has
\* exactly two rows, (A,B,L) and (B,A,L), with distinct ids.
C1_CreateConnectionMakesBothRows ==
    (last.op = "createConnection" /\ last.result = "started") =>
        LET rows == RowsBetween(db, last.a, last.b)
        IN  /\ last.a # last.b
            /\ ConnectionExists(db, last.a, last.b)
            /\ ConnectionExists(db, last.b, last.a)
            /\ Len(rows) = 2
            /\ \E i \in 1..2, j \in 1..2 :
                /\ rows[i].from_contact_id = last.a
                /\ rows[i].to_contact_id = last.b
                /\ rows[j].from_contact_id = last.b
                /\ rows[j].to_contact_id = last.a
                /\ rows[i].label = last.label
                /\ rows[j].label = last.label
                /\ rows[i].id # rows[j].id
                /\ rows[i].id # NullId
                /\ rows[j].id # NullId

C1_Witness ==
    /\ last.op = "createConnection"
    /\ last.result = "started"
    /\ Len(ContactsWithId(db, last.a)) = 1
    /\ Len(ContactsWithId(db, last.b)) = 1
    /\ Len(db.connections) = 2

\* C2: createConnection(A,A,L) is rejected as a self-connection for every A,
\* and createConnection(A,B,L) is rejected whenever a row (A,B) or a row (B,A)
\* exists.
C2_SelfAndDuplicateRejected ==
    (Installed /\ db.readable) =>
        \A a \in ArgIds(db), b \in ArgIds(db), label \in Labels, now \in Times :
            LET out == CreateConnection(db, Min(FreshIds \cup {MaxGen}),
                                        Max(FreshIds \cup {MaxGen}), a, b, label, now)
                rowAB == \E i \in DOMAIN db.connections :
                            /\ db.connections[i].from_contact_id = a
                            /\ db.connections[i].to_contact_id = b
                rowBA == \E i \in DOMAIN db.connections :
                            /\ db.connections[i].from_contact_id = b
                            /\ db.connections[i].to_contact_id = a
            IN  /\ a = b => out.result = "self"
                /\ (rowAB \/ rowBA) => out.result \in {"self", "duplicate"}

C2_Witness ==
    /\ last.op = "createConnection"
    /\ last.result = "duplicate"
    /\ last.a # last.b
    /\ \E i \in DOMAIN db.connections :
        /\ db.connections[i].from_contact_id = last.b
        /\ db.connections[i].to_contact_id = last.a

\* C3: a createConnection rejected as a self-connection or as a duplicate
\* leaves the database and the persisted snapshot as they were and starts no
\* flush.
C3_RejectedCreateConnectionChangesNothing ==
    [][(last'.op = "createConnection" /\ last'.result \in {"self", "duplicate"})
        => (db' = db /\ persisted' = persisted /\ inflight' = inflight)]_vars

C3_Witness ==
    /\ last.op = "createConnection"
    /\ last.result = "self"
    /\ Len(db.contacts) > 0

\* C4: after deleteContact(A) no connection row names A, no node_positions
\* row has contact_id = A and getContactById(A) returns none.
C4_DeleteContactRemovesEverything ==
    (last.op = "deleteContact" /\ last.result = "started") =>
        /\ \A i \in DOMAIN db.connections :
            /\ db.connections[i].from_contact_id # last.a
            /\ db.connections[i].to_contact_id # last.a
        /\ \A p \in db.node_positions : p.contact_id # last.a
        /\ GetContactById(db, last.a) = <<>>

\* what a repository call leaves in a database d that has seen it and nothing after
EffectIn(c, d) ==
    CASE c.op = "createContact" ->
            \E i \in DOMAIN d.contacts : d.contacts[i] = ContactRow(c.gen1, c.input, c.now)
      [] c.op = "updateContact" ->
            \A i \in DOMAIN d.contacts :
                d.contacts[i].id = c.a =>
                    /\ d.contacts[i].name = c.input.name
                    /\ d.contacts[i].image_url = OrNull(c.input.imageUrl)
                    /\ d.contacts[i].image_blob = OrNull(c.input.imageBlob)
                    /\ d.contacts[i].notes = OrNull(c.input.notes)
      [] c.op = "deleteContact" ->
            /\ \A i \in DOMAIN d.contacts : d.contacts[i].id # c.a
            /\ \A i \in DOMAIN d.connections :
                /\ d.connections[i].from_contact_id # c.a
                /\ d.connections[i].to_contact_id # c.a
      [] c.op = "createConnection" ->
            /\ \E i \in DOMAIN d.connections :
                d.connections[i] = ConnectionRow(c.gen1, c.a, c.b, c.label, c.now)
            /\ \E i \in DOMAIN d.connections :
                d.connections[i] = ConnectionRow(c.gen2, c.b, c.a, c.label, c.now)
      [] c.op = "updateConnection" ->
            \A i \in DOMAIN d.connections :
                Between(d.connections[i], c.a, c.b) => d.connections[i].label = c.label
      [] c.op = "deleteConnection" ->
            \A i \in DOMAIN d.connections : ~Between(d.connections[i], c.a, c.b)
      [] c.op = "importData" ->
            \A j \in DOMAIN c.doc.contacts :
                \E i \in DOMAIN d.contacts : d.contacts[i].id = c.doc.contacts[j].id
      [] c.op = "saveNodePositions" ->
            \A q \in c.positions :
                [contact_id |-> q.id, x |-> q.x, y |-> q.y, fixed |-> 0]
                    \in d.node_positions
      [] c.op = "clearNodePositions" -> d.node_positions = {}
      [] OTHER -> FALSE

\* C5: the flush a mutating call starts carries a snapshot that holds the
\* call's mutation, and the call resolves in the step in which that very
\* snapshot becomes the persisted record.
C5_ResolvesAfterOwnFlush ==
    [][/\ (last'.result = "started") =>
            /\ inflight' # <<>>
            /\ inflight'[Len(inflight')].ticket = last'.ticket
            /\ EffectIn(last', inflight'[Len(inflight')].snap)
            /\ \A i \in DOMAIN inflight : inflight[i].ticket # last'.ticket
       /\ (last'.result = "resolved") =>
            /\ \E i \in DOMAIN inflight :
                /\ inflight[i].ticket = last'.ticket
                /\ inflight[i].op = last'.op
                /\ persisted' = [present |-> TRUE, data |-> inflight[i].snap]
            /\ \A i \in DOMAIN inflight' : inflight'[i].ticket # last'.ticket
      ]_vars

C5_Witness ==
    /\ last.result = "resolved"
    /\ last.op = "deleteContact"
    /\ persisted.present
    /\ Len(persisted.data.contacts) = 1

\* C6: when the flushes of overlapping calls have all completed (none in
\* flight, the newest one written, nothing changed since it started), the
\* persisted record is the in-memory database, so that loading it restores
\* that database.
C6_PersistedIsMemoryWhenIdle ==
    (Installed /\ inflight = <<>> /\ synced) => LoadOrCreate(persisted) = db

C6_Witness ==
    /\ phase = "ready"
    /\ inflight = <<>>
    /\ synced
    /\ last.result = "resolved"
    /\ last.queued = 1
    /\ last.op = "createContact"
    /\ db.node_positions # {}

\* C7: importData(exportData()) leaves the contact rows and the connection
\* rows as they were, in every reachable database.
C7_ImportOfExportChangesNothing ==
    [][(last'.op = "importData" /\ IsCall(last') /\ last'.doc = ExportData(db, Latest(db))) =>
        /\ last'.result = "started"
        /\ db'.contacts = db.contacts
        /\ db'.connections = db.connections
      ]_vars

\* C8: importing a document that holds both lists twice leaves the same
\* contact and connection rows as importing it once.
C8_ImportTwiceIsImportOnce ==
    [][(/\ last.op = "importData" /\ IsCall(last)
        /\ last'.op = "importData" /\ IsCall(last')
        /\ last.doc.hasContacts /\ last.doc.hasConnections
        /\ last'.doc = last.doc) =>
        /\ db'.contacts = db.contacts
        /\ db'.connections = db.connections
      ]_vars

\* C9: a contact of the database whose id also names a different contact of
\* the import document keeps exactly its field values through importData.
C9_ImportKeepsExistingContact ==
    [][(last'.op = "importData" /\ IsCall(last')) =>
        \A i \in DOMAIN db.contacts, j \in DOMAIN last'.doc.contacts :
            (db.contacts[i].id # NullId /\ db.contacts[i].id = last'.doc.contacts[j].id)
                => GetContactById(db', db.contacts[i].id) = <<db.contacts[i]>>
      ]_vars

C9_Witness ==
    /\ last.op = "importData"
    /\ last.result = "started"
    /\ \E i \in DOMAIN db.contacts, j \in DOMAIN last.doc.contacts :
        /\ db.contacts[i].id # NullId
        /\ db.contacts[i].id = last.doc.contacts[j].id
        /\ db.contacts[i].name = "ann"
        /\ last.doc.contacts[j].name = "zed"

\* C10: importData ends in the format error exactly when the document lacks
\* the contacts list or the connections list; then no row is inserted and no
\* flush is started.  A document with both lists, empty ones too, gets past
\* the check, and the one with two empty lists is imported and flushed.
C10_ImportFormatCheck ==
    [][(last'.op = "importData" /\ IsCall(last')) =>
        /\ (last'.result = "format")
              <=> (~last'.doc.hasContacts \/ ~last'.doc.hasConnections)
        /\ (last'.result = "format")
              => (db' = db /\ inflight' = inflight /\ persisted' = persisted)
        /\ (last'.doc = Doc(<<>>, <<>>)) => last'.result = "started"
      ]_vars

C10_Witness ==
    /\ last.op = "importData"
    /\ last.result = "format"
    /\ last.doc.hasContacts
    /\ Len(last.doc.contacts) = 1
    /\ ~last.doc.hasConnections

\* C11: importData of a document that holds both lists skips every row whose
\* insert violates a constraint, contact rows as well as connection rows,
\* goes on with the rows that follow, and ends successfully with exactly one
\* flush.
C11_ImportSkipsFailingRows ==
    [][(/\ last'.op = "importData" /\ IsCall(last')
        /\ last'.doc.hasContacts /\ last'.doc.hasConnections) =>
        /\ last'.result = "started"
        /\ Len(inflight') = Len(inflight) + 1
        /\ \A j \in DOMAIN last'.doc.contacts :
            LET row == last'.doc.contacts[j]
            IN  (row.id # NullId /\ row.name # Null) =>
                    Len(ContactsWithId(db', row.id)) = 1
      ]_vars

\* C12: for every two distinct contacts A and B, the row (A,B) exists exactly
\* when the row (B,A) exists, in every reachable state.
C12_MirrorRows ==
    \A a \in NonNullIds(db.contacts), b \in NonNullIds(db.contacts) :
        a # b => (ConnectionExistsForward(db, a, b) <=> ConnectionExistsForward(db, b, a))

\* C13: in every reachable state both ends of every connection row are ids
\* of contacts of the database.
C13_ConnectionsReferenceContacts ==
    \A i \in DOMAIN db.connections : ReferencesHold(db, db.connections[i])

\* C14: in every reachable state no connection row joins a contact to itself.
C14_NoSelfConnectionRow ==
    \A i \in DOMAIN db.connections :
        db.connections[i].from_contact_id # db.connections[i].to_contact_id

\* C15: updateConnection(A,B,{label}) gives the rows (A,B) and (B,A) the new
\* label and leaves every other connection row, every contact and every
\* node position as it was.
C15_UpdateConnectionBothRowsOnly ==
    [][(last'.op = "updateConnection" /\ last'.result = "started") =>
        /\ DOMAIN db'.connections = DOMAIN db.connections
        /\ \A i \in DOMAIN db.connections :
            LET r == db.connections[i]
                pair == \/ (r.from_contact_id = last'.a /\ r.to_contact_id = last'.b)
                        \/ (r.from_contact_id = last'.b /\ r.to_contact_id = last'.a)
            IN  /\ pair => db'.connections[i] = [r EXCEPT !.label = last'.label]
                /\ ~pair => db'.connections[i] = r
        /\ db'.contacts = db.contacts
        /\ db'.node_positions = db.node_positions
      ]_vars

C15_Witness ==
    /\ last.op = "updateConnection"
    /\ last.result = "started"
    /\ last.label = "boss"
    /\ \E i \in DOMAIN db.connections, j \in DOMAIN db.connections, k \in DOMAIN db.connections :
        /\ db.connections[i].from_contact_id = last.a
        /\ db.connections[i].to_contact_id = last.b
        /\ db.connections[j].from_contact_id = last.b
        /\ db.connections[j].to_contact_id = last.a
        /\ db.connections[i].label = "boss"
        /\ db.connections[j].label = "boss"
        /\ ~Between(db.connections[k], last.a, last.b)
        /\ db.connections[k].label = "kin"
    /\ db.node_positions # {}
    /\ db.contacts # <<>>

\* C16: getUniqueConnections() returns exactly one row for every undirected
\* pair that has a connection row and none for any other pair, and the label
\* of that row is the label the pair's rows carry.
C16_UniqueConnectionsOnePerPair ==
    (Installed /\ db.readable) =>
        LET u == GetUniqueConnections(db)
            ends == {db.connections[i].from_contact_id : i \in DOMAIN db.connections}
                    \cup {db.connections[i].to_contact_id : i \in DOMAIN db.connections}
            RowsOf(a, b) == {x \in u : {x.contact1_id, x.contact2_id} = {a, b}}
        IN  /\ \A a \in ends, b \in ends :
                Cardinality(RowsOf(a, b)) = IF ConnectionExists(db, a, b) THEN 1 ELSE 0
            /\ \A x \in u :
                /\ ConnectionExists(db, x.contact1_id, x.contact2_id)
                /\ \A i \in DOMAIN db.connections :
                    Between(db.connections[i], x.contact1_id, x.contact2_id)
                        => db.connections[i].label = x.label

\* C17: with contacts Alice and Bob and the one connection Alice->Bob with
\* label L just created, getConnectionsForContact(Alice) returns one entry,
\* naming Bob with label L; after deleteContact(Bob) it returns none.
C17_ConnectionsForContactScenario ==
    /\ (/\ last.op = "createConnection" /\ last.result = "started"
        /\ Len(db.contacts) = 2 /\ Len(db.connections) = 2) =>
            LET entries == GetConnectionsForContact(db, last.a)
            IN  /\ Len(entries) = 1
                /\ entries[1].other_contact_id = last.b
                /\ entries[1].label = last.label
    /\ (last.op = "deleteContact" /\ last.result = "started") =>
            \A a \in NonNullIds(db.contacts) :
                \A i \in DOMAIN GetConnectionsForContact(db, a) :
                    GetConnectionsForContact(db, a)[i].other_contact_id # last.a

\* C18: for every contact input C, empty-string optional fields included,
\* getContactById(createContact(C).id) returns a contact whose name,
\* image_url, image_blob and notes are those of C.
C18_CreateThenGetReturnsInput ==
    (last.op = "createContact" /\ last.result = "started") =>
        /\ Len(GetContactById(db, last.gen1)) = 1
        /\ GetContactById(db, last.gen1)[1].name = last.input.name
        /\ GetContactById(db, last.gen1)[1].image_url = last.input.imageUrl
        /\ GetContactById(db, last.gen1)[1].image_blob = last.input.imageBlob
        /\ GetContactById(db, last.gen1)[1].notes = last.input.notes

\* C19: when reading the store fails or the stored record cannot be opened
\* at startup, initDatabase fails: no database is installed (not the stored
\* one, not a blank one), the stored record stays as it is, and until the
\* page is reloaded nothing is written.
C19_FailedStartupInstallsNothing ==
    [][/\ (last'.op = "initDatabase" /\ last'.result \in {"readError", "unreadable"}) =>
            /\ phase = "uninit"
            /\ phase' = "failed"
            /\ db' = db
            /\ persisted' = persisted
            /\ inflight' = <<>>
       /\ (phase = "failed" /\ stage # "ui") =>
            /\ phase' \in {"failed", "uninit"}
            /\ db' = db
            /\ persisted' = persisted
            /\ inflight' = <<>>
      ]_vars

\* C20: each successful createContact, updateContact, deleteContact,
\* createConnection, updateConnection and deleteConnection starts exactly one
\* flush, whose snapshot is the database after all of the call's statements
\* (for deleteContact: after both deletions); a call that throws starts none.
C20_OneFlushAfterMutations ==
    [][(/\ last'.op \in {"createContact", "updateContact", "deleteContact",
                         "createConnection", "updateConnection", "deleteConnection"}
        /\ IsCall(last')) =>
            IF last'.result = "started"
            THEN /\ Len(inflight') = Len(inflight) + 1
                 /\ \A i \in DOMAIN inflight : inflight'[i] = inflight[i]
                 /\ inflight'[Len(inflight')].snap = db'
                 /\ inflight'[Len(inflight')].ticket = last'.ticket
                 /\ EffectIn(last', db')
            ELSE inflight' = inflight /\ db' = db
      ]_vars

C20_Witness ==
    /\ last.op = "deleteContact"
    /\ last.result = "started"
    /\ Len(inflight) = 2
    /\ inflight[1].op = "createConnection"
    /\ Len(inflight[1].snap.connections) = 2
    /\ Len(inflight[1].snap.contacts) = 2
    /\ inflight[2].snap = db
    /\ db.connections = <<>>
    /\ Len(db.contacts) = 1

\* C21: of two createConnection calls on the same pair {A,B}, in the same or
\* in the opposite order, the second one made while the first is still
\* awaiting its flush is rejected as a duplicate and adds nothing: the pair
\* has exactly the two rows of the first call.
C21_OverlappingCreateConnection ==
    [][(/\ last.op = "createConnection" /\ last.result = "started"
        /\ last'.op = "createConnection" /\ IsCall(last')
        /\ {last'.a, last'.b} = {last.a, last.b}) =>
            /\ last'.result = "duplicate"
            /\ db' = db
            /\ inflight' = inflight
            /\ Len(RowsBetween(db', last.a, last.b)) = 2
      ]_vars

C21_Witness ==
    /\ last.op = "createConnection"
    /\ last.result = "duplicate"
    /\ inflight # <<>>
    /\ inflight[Len(inflight)].op = "createConnection"
    /\ ~ConnectionExists(LoadOrCreate(persisted), last.a, last.b)
    /\ Len(RowsBetween(db, last.a, last.b)) = 2
    /\ db.connections[1].from_contact_id = last.b
    /\ db.connections[1].to_contact_id = last.a

\* C22: every snapshot written to the store is the database as it was after
\* whole operations only: a snapshot is taken after all statements of its
\* call, and it never holds rows of an operation that ended in an error
\* midway (a partially applied import).
C22_WrittenSnapshotsAreWhole ==
    [][/\ (last'.result = "started") =>
            /\ inflight'[Len(inflight')].snap = db'
            /\ EffectIn(last', db')
       /\ (last'.result = "resolved") =>
            \A i \in DOMAIN inflight :
                inflight[i].ticket = last'.ticket => ~inflight[i].torn
      ]_vars

\* C23: in every reachable state each node_positions row names a contact of
\* the database and no contact has two rows, also when positions are saved
\* while deleteContact awaits its flush and the graph still shows the
\* deleted contact.
C23_PositionsReferenceContacts ==
    /\ \A p \in db.node_positions : Len(ContactsWithId(db, p.contact_id)) = 1
    /\ \A p \in db.node_positions, q \in db.node_positions :
        p.contact_id = q.contact_id => p = q

\* C24: saveNodePositions(list) leaves exactly one row per entry of the list
\* with the entry's values, leaves the rows of contacts not in the list and
\* all contacts and connections as they were, gives the same table when
\* applied a second time, and starts exactly one flush.
C24_SaveNodePositionsUpserts ==
    [][(last'.op = "saveNodePositions" /\ IsCall(last')) =>
        LET ids == {q.id : q \in last'.positions}
        IN  /\ last'.result = "started"
            /\ \A q \in last'.positions :
                {p \in db'.node_positions : p.contact_id = q.id}
                    = {[contact_id |-> q.id, x |-> q.x, y |-> q.y,
                        fixed |-> IF q.fixed THEN 1 ELSE 0]}
            /\ {p \in db'.node_positions : p.contact_id \notin ids}
                    = {p \in db.node_positions : p.contact_id \notin ids}
            /\ db'.contacts = db.contacts
            /\ db'.connections = db.connections
            /\ SaveNodePositions(db', last'.positions).db = db'
            /\ Len(inflight') = Len(inflight) + 1
      ]_vars

C24_Witness ==
    /\ last.op = "saveNodePositions"
    /\ last.result = "started"
    /\ \E p \in db.node_positions :
        /\ \A q \in last.positions : q.id # p.contact_id
        /\ p.x = 0
    /\ \E p \in db.node_positions :
        /\ \E q \in last.positions : q.id = p.contact_id
        /\ p.x = 1
        /\ \E old \in persisted.data.node_positions :
            old.contact_id = p.contact_id /\ old.x = 0

\* C25: clearNodePositions() leaves node_positions empty, so that
\* getNodePositions() returns no rows, leaves every contact and connection
\* row as it was, and starts exactly one flush.
C25_ClearNodePositions ==
    [][(last'.op = "clearNodePositions" /\ IsCall(last')) =>
        /\ last'.result = "started"
        /\ db'.node_positions = {}
        /\ GetNodePositions(db') = {}
        /\ db'.contacts = db.contacts
        /\ db'.connections = db.connections
        /\ Len(inflight') = Len(inflight) + 1
        /\ inflight'[Len(inflight')].snap = db'
      ]_vars

C25_Witness ==
    /\ last.op = "clearNodePositions"
    /\ last.result = "started"
    /\ GetNodePositions(db) = {}
    /\ persisted.data.node_positions # {}
    /\ Len(db.contacts) = 2
    /\ Len(db.connections) = 2

\* C26: the database becomes ready (db is assigned) only by initDatabase
\* resolving, which installs the stored database or a new one; once ready it
\* stays so until the page is reloaded; and before it is ready no repository
\* call is made and no flush is started or completed.
C26_ReadyOnlyThroughInit ==
    [][/\ (~Installed /\ Installed') =>
            /\ phase = "uninit"
            /\ last'.op = "initDatabase"
            /\ last'.result \in {"ok", "unreadable", "networkError"}
            /\ db'.contacts = LoadOrCreate(persisted).contacts
            /\ db'.connections = LoadOrCreate(persisted).connections
            /\ db'.readable = LoadOrCreate(persisted).readable
       /\ (Installed /\ ~Installed') => last'.op = "reload"
       /\ (~Installed) =>
            /\ last'.op \in {"initDatabase", "reload"}
            /\ inflight = <<>>
            /\ inflight' = <<>>
            /\ persisted' = persisted
      ]_vars

C26_Witness ==
    /\ phase = "ready"
    /\ last.op = "initDatabase"
    /\ last.result = "ok"
    /\ calls = 2
    /\ persisted.present
    /\ db = persisted.data
    /\ Len(db.contacts) = 3

\* C27: ensurePositionsTable changes nothing in a database that has the
\* table; a database loaded from a snapshot without node_positions has the
\* table before any position statement runs, with its contacts and
\* connections as stored, and every position save and clear succeeds.
C27_PositionsTableEnsured ==
    [][/\ (last'.op = "initDatabase" /\ last'.result = "ok") =>
            /\ db'.positions_table
            /\ db'.contacts = LoadOrCreate(persisted).contacts
            /\ db'.connections = LoadOrCreate(persisted).connections
            /\ db'.node_positions = LoadOrCreate(persisted).node_positions
       /\ (last'.op \in {"saveNodePositions", "clearNodePositions"} /\ IsCall(last')) =>
            /\ last'.result = "started"
            /\ db'.positions_table
            /\ db'.contacts = db.contacts
            /\ db'.connections = db.connections
       /\ (phase = "ready" /\ db.positions_table) => EnsurePositionsTable(db) = db
      ]_vars

C27_Witness ==
    /\ last.op = "saveNodePositions"
    /\ last.result = "started"
    /\ calls = 1
    /\ persisted.present
    /\ ~persisted.data.positions_table
    /\ db.positions_table
    /\ Cardinality(db.node_positions) = 2
    /\ db.contacts = persisted.data.contacts
    /\ db.connections = persisted.data.connections
    /\ Len(db.connections) = 2

\* C28: the store holds at most the one record: it changes only when a
\* flush completes, which replaces it by that flush's whole snapshot, and
\* once written it is never removed.
C28_OneRecordOverwritten ==
    [][/\ (persisted' # persisted) =>
            /\ last'.result = "resolved"
            /\ persisted'.present
            /\ \E i \in DOMAIN inflight :
                /\ inflight[i].ticket = last'.ticket
                /\ persisted'.data = inflight[i].snap
       /\ (last'.result = "resolved") =>
            /\ persisted'.present
            /\ \E i \in DOMAIN inflight :
                /\ inflight[i].ticket = last'.ticket
                /\ persisted'.data = inflight[i].snap
       /\ persisted.present => persisted'.present
      ]_vars

C28_Witness ==
    /\ last.result = "resolved"
    /\ last.op = "deleteContact"
    /\ last.queued = 1
    /\ persisted.present
    /\ persisted.data = db
    /\ Len(db.contacts) = 2
    /\ calls = 2

\* C29: updateContact(id, fields) replaces name, image_url, image_blob and
\* notes of the contact with that id, leaves its id and created_at, every
\* other contact, every connection and every position row as they were, and
\* changes no row when no contact has that id.
C29_UpdateContactFrame ==
    [][(last'.op = "updateContact" /\ IsCall(last')) =>
        /\ last'.result = "started"
        /\ DOMAIN db'.contacts = DOMAIN db.contacts
        /\ \A i \in DOMAIN db.contacts :
            IF db.contacts[i].id = last'.a
            THEN /\ db'.contacts[i].id = db.contacts[i].id
                 /\ db'.contacts[i].created_at = db.contacts[i].created_at
                 /\ db'.contacts[i].name = last'.input.name
                 /\ db'.contacts[i].image_url = OrNull(last'.input.imageUrl)
                 /\ db'.contacts[i].image_blob = OrNull(last'.input.imageBlob)
                 /\ db'.contacts[i].notes = OrNull(last'.input.notes)
            ELSE db'.contacts[i] = db.contacts[i]
        /\ db'.connections = db.connections
        /\ db'.node_positions = db.node_positions
        /\ (\A i \in DOMAIN db.contacts : db.contacts[i].id # last'.a) => db' = db
      ]_vars

C29_Witness ==
    /\ last.op = "updateContact"
    /\ last.result = "started"
    /\ Len(db.contacts) = 2
    /\ db.contacts[2].id = last.a
    /\ db.contacts[2].name = "ann"
    /\ db.contacts[2].notes = "tea"
    /\ db.contacts[2].image_blob = Null
    /\ db.contacts[2].created_at = SeedTime
    /\ db.contacts[1] = persisted.data.contacts[1]
    /\ Len(db.connections) = 2
    /\ db.node_positions # {}

\* C30: in every reachable state every contact row has a name that is
\* present and not the empty string.
C30_ContactNamesNonEmpty ==
    \A i \in DOMAIN db.contacts :
        db.contacts[i].name # Null /\ db.contacts[i].name # ""

\* C31: deleteConnection(A,B) removes the rows (A,B) and (B,A), in whichever
\* order the two are given, removes no row of another pair, and leaves
\* contacts and node positions as they were; afterwards connectionExists is
\* false in both orders.
C31_DeleteConnectionBothRowsOnly ==
    [][(last'.op = "deleteConnection" /\ IsCall(last')) =>
        /\ last'.result = "started"
        /\ db'.connections =
              SelectSeq(db.connections,
                  LAMBDA r : ~(\/ (r.from_contact_id = last'.a /\ r.to_contact_id = last'.b)
                               \/ (r.from_contact_id = last'.b /\ r.to_contact_id = last'.a)))
        /\ ~ConnectionExists(db', last'.a, last'.b)
        /\ ~ConnectionExists(db', last'.b, last'.a)
        /\ db'.contacts = db.contacts
        /\ db'.node_positions = db.node_positions
      ]_vars

C31_Witness ==
    /\ last.op = "deleteConnection"
    /\ last.result = "started"
    /\ last.a = 2
    /\ last.b = 4
    /\ Len(persisted.data.connections) = 2
    /\ persisted.data.connections[1].from_contact_id = 4
    /\ persisted.data.connections[1].to_contact_id = 2
    /\ Len(db.connections) = 1
    /\ db.connections[1].label = "kin"
    /\ Len(db.contacts) >= 2
    /\ db.node_positions # {}

\* C32: exportData() returns version 1, the export time, every contact row
\* and every connection row of the database (both rows of each pair) and
\* nothing else, no node position; it changes neither the database nor the
\* store and starts no flush.
C32_ExportDataReadsAll ==
    [][(last'.op = "exportData") =>
        /\ last'.doc.version = 1
        /\ last'.doc.contacts = db.contacts
        /\ last'.doc.connections = db.connections
        /\ DOMAIN last'.doc = {"version", "exportedAt", "hasContacts", "contacts",
                               "hasConnections", "connections"}
        /\ last'.doc.hasContacts
        /\ last'.doc.hasConnections
        /\ db' = db
        /\ persisted' = persisted
        /\ inflight' = inflight
      ]_vars

C32_Witness ==
    /\ last.op = "exportData"
    /\ Len(last.doc.contacts) = 2
    /\ Len(last.doc.connections) = 2
    /\ last.doc.connections[1].from_contact_id = last.doc.connections[2].to_contact_id
    /\ last.doc.connections[1].to_contact_id = last.doc.connections[2].from_contact_id
    /\ db.node_positions # {}
    /\ inflight = <<>>

\* C33: importData only adds: every contact row and every connection row of
\* the database is still there afterwards, unchanged and in its place,
\* node_positions is untouched, and a document connection whose id the
\* database already has adds no row and leaves the row with that id as it was.
C33_ImportOnlyAdds ==
    [][(last'.op = "importData" /\ IsCall(last')) =>
        /\ Len(db'.contacts) >= Len(db.contacts)
        /\ \A i \in DOMAIN db.contacts : db'.contacts[i] = db.contacts[i]
        /\ Len(db'.connections) >= Len(db.connections)
        /\ \A i \in DOMAIN db.connections : db'.connections[i] = db.connections[i]
        /\ db'.node_positions = db.node_positions
        /\ \A j \in DOMAIN last'.doc.connections :
            LET id == last'.doc.connections[j].id
            IN  Len(ConnectionsWithId(db, id)) > 0 =>
                    ConnectionsWithId(db', id) = ConnectionsWithId(db, id)
      ]_vars

C33_Witness ==
    /\ last.op = "importData"
    /\ last.result = "started"
    /\ Len(last.doc.connections) = 1
    /\ last.doc.connections[1].id = 1
    /\ last.doc.connections[1].from_contact_id = ForeignId
    /\ Len(db.connections) = 2
    /\ db.connections[2].id = 1
    /\ db.connections[2].from_contact_id = 2
    /\ db.connections[2].label = "friend"
    /\ db.node_positions # {}

\* C34: when the flush of a call fails the call rejects, the database keeps
\* the rows the call wrote and the store keeps the older snapshot; every
\* flush started later carries the whole database, so once a later flush is
\* the newest and completes, the store holds the database again, the failed
\* call's rows with it.
C34_FailedFlushKeepsMutation ==
    [][/\ (last'.result = "rejected") =>
            /\ db' = db
            /\ persisted' = persisted
            /\ \E i \in DOMAIN inflight :
                /\ inflight[i].ticket = last'.ticket
                /\ (i = Len(inflight)) => ~synced'
       /\ (last'.result = "started") => inflight'[Len(inflight')].snap = db'
       /\ (last'.result = "resolved" /\ inflight' = <<>> /\ synced') =>
            persisted'.data = db
      ]_vars

C34_Witness ==
    /\ last.result = "rejected"
    /\ last.op = "createContact"
    /\ last.ticket = 1
    /\ ~persisted.present
    /\ Len(inflight) = 1
    /\ inflight[1].ticket = 2
    /\ inflight[1].snap = db
    /\ Len(db.contacts) = 2
    /\ db.contacts[1].id = 5
    /\ db.contacts[2].id = 3

\* C35: after activate only the cache named CACHE_NAME remains; the fetch
\* handler leaves a request that is not a GET unanswered and stores nothing
\* for it, answers from the cache when the request is cached at its lookup,
\* and what it stores is a response of status 200 for a URL of the page's
\* origin or of cdnjs.cloudflare.com, in the cache named CACHE_NAME.
C35_ServiceWorkerCaches ==
    [][/\ (sw'.last.event = "activate") =>
            /\ sw'.caches = {CACHE_NAME}
            /\ \A e \in sw'.entries : e.cache = CACHE_NAME
       /\ (sw'.last.event = "fetch" /\ sw'.last.method # "GET") =>
            /\ ~sw'.last.answered
            /\ sw'.entries = sw.entries
            /\ sw'.pending = sw.pending
            /\ sw'.fetching = sw.fetching
            /\ sw'.matching = sw.matching
       /\ (/\ sw'.last.event = "fetch" /\ sw'.last.method = "GET"
           /\ \E e \in sw.entries : e.url = sw'.last.url) =>
            /\ sw'.last.answered
            /\ sw'.last.source = "cache"
            /\ sw'.pending = sw.pending
            /\ sw'.fetching = sw.fetching
            /\ sw'.matching = sw.matching
       /\ \A e \in sw'.entries \ sw.entries :
            e.via = "fetch" =>
                /\ e.status = 200
                /\ e.cache = CACHE_NAME
                /\ \/ e.url.origin = LocationOrigin
                   \/ e.url.hostname = "cdnjs.cloudflare.com"
       /\ \A p \in BagToSet(sw'.pending) :
            CopiesIn(p, sw'.pending) > CopiesIn(p, sw.pending) =>
                /\ sw'.last.event = "response"
                /\ p.url = sw'.last.url
                /\ p.status = 200
                /\ \/ p.url.origin = LocationOrigin
                   \/ p.url.hostname = "cdnjs.cloudflare.com"
      ]_vars

C35_Witness ==
    /\ sw.worker = "active"
    /\ sw.caches = {CACHE_NAME}
    /\ sw.last.event = "fetch"
    /\ sw.last.method = "GET"
    /\ sw.last.source = "cache"
    /\ sw.last.url.hostname = "cdnjs.cloudflare.com"
    /\ \E e \in sw.entries :
        /\ e.via = "fetch"
        /\ e.url = sw.last.url
    /\ \E e \in sw.entries : e.via = "install"

====
